---- MODULE Spec2Model ----
(***************************************************************************)
(* Cook Book storage layer (food/db.py): the recipes table of the local    *)
(* SQLite store and the CRUD functions over it.                            *)
(*                                                                         *)
(* Python values: a str that the code takes apart (title) is a sequence of *)
(* characters; an Optional value is None (<<>>) or Some(v) (<<v>>); the    *)
(* loosely typed serves/servings argument is a tagged value.               *)
(***************************************************************************)
EXTENDS Integers, Sequences, FiniteSets, TLC

\* ------------------------------------------------------------------ bounds
\* Rows ever inserted (caps the AUTOINCREMENT counter).
MaxAdds == 2

\* The clock runs from 0 to MaxClock seconds.
MaxClock == 2

\* list_recipes(limit=100)
DefaultLimit == 100

\* The ids of the Ingredient table run up to MaxIngredientId.
MaxIngredientId == 3

\* ------------------------------------------------------------ Python values
None == <<>>
Some(v) == <<v>>
IsNone(o) == o = <<>>
Val(o) == o[1]

PyInt(n) == [t |-> "int", v |-> n]
PyStr(s) == [t |-> "str", s |-> s]

IsSpace(c) == c = " "

RECURSIVE lstrip(_)
lstrip(s) == IF s = <<>> THEN s
             ELSE IF IsSpace(Head(s)) THEN lstrip(Tail(s)) ELSE s

RECURSIVE rstrip(_)
rstrip(s) == IF s = <<>> THEN s
             ELSE IF IsSpace(s[Len(s)]) THEN rstrip(SubSeq(s, 1, Len(s) - 1)) ELSE s

\* Variant: str.lstrip() in place of str.strip().
strip_leading_only(s) == lstrip(s)

\* str.strip(): leading and trailing whitespace removed.
strip(s) == rstrip(lstrip(s))

\* x or "" for an Optional[str]: None and "" both give "".
OrEmpty(o) == IF IsNone(o) \/ o = Some("") THEN "" ELSE Val(o)

Digits == <<"0", "1", "2", "3", "4", "5", "6", "7", "8", "9">>
IsDigit(c) == \E i \in 1..10 : Digits[i] = c
DigitVal(c) == (CHOOSE i \in 1..10 : Digits[i] = c) - 1

RECURSIVE ParseDigits(_, _)
ParseDigits(s, acc) == IF s = <<>> THEN acc
                       ELSE ParseDigits(Tail(s), 10 * acc + DigitVal(Head(s)))

\* int(v) succeeds on an int and on a str of decimal digits (surrounding
\* whitespace allowed); it raises on None, on "" and on a str with a character
\* that is no digit (signs and underscores are not among the characters in play).
IntRaises(o) ==
    \/ IsNone(o)
    \/ /\ Val(o).t = "str"
       /\ LET d == strip(Val(o).s) IN d = <<>> \/ \E i \in 1..Len(d) : ~IsDigit(d[i])

IntOf(o) == IF Val(o).t = "int" THEN Val(o).v ELSE ParseDigits(strip(Val(o).s), 0)

\* Variant: only an int converts, every str gives the default.
_to_int_of_int_only(v, default) ==
    IF IsNone(v) \/ Val(v).t = "str" THEN default ELSE Val(v).v

_to_int(v, default) == IF IntRaises(v) THEN default ELSE IntOf(v)

\* -------------------------------------------------------------------- state
VARIABLES
    db,        \* _DB: the module-level connection state
    recipes,   \* the recipes table: rowid -> row
    seq,       \* sqlite_sequence entry of the table (AUTOINCREMENT)
    now,       \* the clock, in seconds
    issued,    \* history: the ids add_recipe has returned, in order
    before,    \* history: the table as the last call found it
    last,      \* the last call: its name, arguments and result
    schema,    \* the recipes table exists in the database recipes is read from
    stores,    \* the other databases that hold a recipes table: location -> contents
    psycopg2,  \* the Postgres driver was importable when the module was loaded
    config,    \* history: the arguments of the last init_db that returned
    planner,   \* data/food_planner.db as committed: table name -> table
    mig,       \* the init_db of the embedded variant: its position and transaction
    repo,      \* the repository's database as committed: the recipe and ingredient tables
    cache,     \* st.cache_data of list_recipes_cached: argument -> cached result
    session_state,  \* st.session_state of the two Cook Book pages
    uuids      \* how many uuid4 the in-memory page has drawn

\* State src/food/db.py never touches.
beyond == <<planner, mig, repo, cache, session_state, uuids>>

\* State the operations on the recipes table of src/food/db.py never touch.
elsewhere == <<stores, psycopg2, config, beyond>>

\* State of the in-memory Cook Book, the edit mode of the other page apart.
inmemory == <<session_state, uuids>>

\* State neither src/food/db.py nor data/food_planner.db has a part in.
others == <<repo, cache, inmemory>>

\* State of src/food/db.py, the clock and the last call apart.
food == <<db, recipes, seq, issued, before, schema, stores, psycopg2, config>>

vars == <<db, recipes, seq, now, issued, before, last, schema, elsewhere>>

DefaultPath == <<"food.sqlite3">>

NoDB == [engine |-> None, conn |-> None, dsn |-> None, path |-> None]

\* Variant: engine, conn and path assigned, dsn left as it was.
_init_sqlite_dsn_kept(path) ==
    [db EXCEPT !.engine = Some("sqlite"), !.conn = Some("sqlite3"), !.path = Some(path)]

_init_sqlite(path) ==
    [engine |-> Some("sqlite"), conn |-> Some("sqlite3"), dsn |-> None, path |-> Some(path)]

\* _conn(): the connection, opening the default SQLite file on first use.
_conn(d) == IF IsNone(d.conn) THEN _init_sqlite(DefaultPath) ELSE d

EmptyTable == [i \in {} |-> None]

\* data/food_planner.db before anything created a table in it.
NoTables == <<>>

\* No init_db of the embedded variant is under way.
Idle == [pc |-> "idle", work |-> NoTables, start |-> NoTables, outcome |-> "none"]

\* The repository's tables, empty, and the cache with nothing cached.
NoRows == [recipe |-> EmptyTable, ingredient |-> EmptyTable]

NoEntries == <<>>

\* init_state of streamlit_app.py, and edit_id as pages/cookbook.py sets it.
init_state == [cookbook |-> <<>>, page |-> "List", active_recipe_id |-> None, edit_id |-> None]

\* The module as loaded without the Postgres driver, nothing opened yet.
Init ==
    /\ db = NoDB
    /\ recipes = EmptyTable
    /\ seq = 0
    /\ now = 0
    /\ issued = <<>>
    /\ before = EmptyTable
    /\ last = [op |-> "none", args |-> <<>>, ret |-> None, raised |-> None]
    /\ schema = FALSE
    /\ stores = <<>>
    /\ config = None
    /\ planner = NoTables
    /\ mig = Idle
    /\ repo = NoRows
    /\ cache = NoEntries
    /\ session_state = init_state
    /\ uuids = 0
    /\ psycopg2 = FALSE

\* ---------------------------------------------------------------------- SQL
Max(a, b) == IF a >= b THEN a ELSE b

MaxRowid(table) ==
    IF DOMAIN table = {} THEN 0
    ELSE CHOOSE i \in DOMAIN table : \A j \in DOMAIN table : j <= i

\* Variant: INTEGER PRIMARY KEY without AUTOINCREMENT, which forgets deleted rowids.
NextRowidNoSequence(table, sequence) == MaxRowid(table) + 1

\* INTEGER PRIMARY KEY AUTOINCREMENT: one more than the largest rowid the table
\* has ever held, which sqlite_sequence remembers across deletes.
NextRowid(table, sequence) == Max(sequence, MaxRowid(table)) + 1

\* sqlite3_datetime_now(): the application-side UTC timestamp.
sqlite3_datetime_now == now

\* INSERT INTO recipes (cols) VALUES (params): the row gets its rowid and the
\* column defaults of the schema (created_at DEFAULT CURRENT_TIMESTAMP).
SqlInsert(table, rowid, params) ==
    table @@ (rowid :> (params @@ [id |-> rowid, created_at |-> now]))

RECURSIVE ApplySets(_, _)
ApplySets(row, sets) ==
    IF sets = <<>> THEN row
    ELSE ApplySets([row EXCEPT ![Head(sets)[1]] = Head(sets)[2]], Tail(sets))

\* UPDATE recipes SET sets WHERE id = recipe_id
SqlUpdate(table, sets, recipe_id) ==
    [j \in DOMAIN table |-> IF j = recipe_id THEN ApplySets(table[j], sets) ELSE table[j]]

\* Variant: DELETE FROM recipes, the WHERE clause lost.
SqlDeleteAll(table, recipe_id) == [j \in {} |-> table[j]]

\* Variant: DELETE FROM recipes WHERE id <= recipe_id.
SqlDeleteUpTo(table, recipe_id) ==
    [j \in {k \in DOMAIN table : k > recipe_id} |-> table[j]]

\* DELETE FROM recipes WHERE id = recipe_id
SqlDelete(table, recipe_id) ==
    [j \in DOMAIN table \ {recipe_id} |-> table[j]]

\* SELECT ... FROM recipes WHERE id = recipe_id; fetchone()
SelectById(table, recipe_id) ==
    IF recipe_id \in DOMAIN table THEN Some(table[recipe_id]) ELSE None

\* Variant: SELECT COUNT(DISTINCT title) FROM recipes.
SelectCountDistinctTitle(table) == Cardinality({table[j].title : j \in DOMAIN table})

\* SELECT COUNT(*) FROM recipes
SelectCount(table) == Cardinality(DOMAIN table)

CharCode(c) == CASE c = " " -> 32 [] c = "a" -> 97 [] c = "b" -> 98

\* BINARY collation: bytewise, a proper prefix sorts first.
RECURSIVE TextLeq(_, _)
TextLeq(s, t) ==
    IF s = <<>> THEN TRUE
    ELSE IF t = <<>> THEN FALSE
    ELSE IF CharCode(Head(s)) # CharCode(Head(t)) THEN CharCode(Head(s)) < CharCode(Head(t))
    ELSE TextLeq(Tail(s), Tail(t))

\* SELECT id, title FROM recipes ORDER BY title ASC: every row once, titles
\* ascending; SQL leaves the order of rows with equal titles open, so this is
\* the set of sequences the statement may return.
SelectOrderByTitle(table) ==
    LET orders == UNION {{f \in [1..n -> DOMAIN table] :
                            /\ \A j \in DOMAIN table : \E i \in 1..n : f[i] = j
                            /\ \A i, j \in 1..n : i # j => f[i] # f[j]
                            /\ \A i, j \in 1..n :
                                  i < j => TextLeq(table[f[i]].title, table[f[j]].title)}
                         : n \in 0..MaxAdds}
    IN {[i \in DOMAIN f |-> [id |-> f[i], title |-> table[f[i]].title]] : f \in orders}

\* --------------------------------------------------------------- operations
Call(op, args, ret) == [op |-> op, args |-> args, ret |-> ret, raised |-> None]

add_recipe(title, ingredients, instructions, image_bytes, image_mime, image_filename, serves, servings) ==
    LET serves_val == _to_int(IF ~IsNone(serves) THEN serves ELSE servings, 0)
        params == [title          |-> strip(title),
                   ingredients    |-> Some(OrEmpty(ingredients)),
                   instructions   |-> Some(OrEmpty(instructions)),
                   image_bytes    |-> image_bytes,
                   image_mime     |-> image_mime,
                   image_filename |-> image_filename,
                   serves         |-> Some(serves_val),
                   updated_at     |-> sqlite3_datetime_now]
        new_id == NextRowid(recipes, seq)
    IN /\ Len(issued) < MaxAdds
       /\ db' = _conn(db)
       /\ schema' = (schema \/ IsNone(db.conn))
       /\ UNCHANGED elsewhere
       /\ recipes' = SqlInsert(recipes, new_id, params)
       /\ seq' = new_id
       /\ issued' = Append(issued, new_id)
       /\ before' = recipes
       /\ last' = Call("add_recipe",
                       [title |-> title, ingredients |-> ingredients,
                        instructions |-> instructions, image_bytes |-> image_bytes,
                        image_mime |-> image_mime, image_filename |-> image_filename,
                        serves |-> serves, servings |-> servings],
                       new_id)
       /\ UNCHANGED now

list_recipes ==
    /\ db' = _conn(db)
    /\ schema' = (schema \/ IsNone(db.conn))
    /\ UNCHANGED elsewhere
    /\ \E out \in SelectOrderByTitle(recipes) : last' = Call("list_recipes", <<>>, out)
    /\ before' = recipes
    /\ UNCHANGED <<recipes, seq, now, issued>>

\* The dict get_recipe builds of a row, with the back-compat 'servings' key.
RowDict(row) == row @@ [servings |-> row.serves]

get_recipe(recipe_id) ==
    LET row == SelectById(recipes, recipe_id)
        d == IF IsNone(row) THEN None ELSE Some(RowDict(Val(row)))
    IN /\ db' = _conn(db)
       /\ schema' = (schema \/ IsNone(db.conn))
       /\ UNCHANGED elsewhere
       /\ last' = Call("get_recipe", [recipe_id |-> recipe_id], d)
       /\ before' = recipes
       /\ UNCHANGED <<recipes, seq, now, issued>>

\* The SET list update_recipe builds, in the order it builds it: a column is
\* in the list when its argument is not None.
Set(col, supplied, value) == IF supplied THEN << <<col, value>> >> ELSE <<>>

\* Variant: ingredients written as in add_recipe (ingredients or ""), supplied or not.
TextSetsClobber(title, ingredients, instructions) ==
    Set("title", ~IsNone(title), IF IsNone(title) THEN <<>> ELSE strip(Val(title)))
    \o Set("ingredients", TRUE, Some(OrEmpty(ingredients)))
    \o Set("instructions", ~IsNone(instructions), instructions)

TextSets(title, ingredients, instructions) ==
    Set("title", ~IsNone(title), IF IsNone(title) THEN <<>> ELSE strip(Val(title)))
    \o Set("ingredients", ~IsNone(ingredients), ingredients)
    \o Set("instructions", ~IsNone(instructions), instructions)

\* Variant: servings read first, serves only when servings is not given.
ServesSetsServingsFirst(serves, servings) ==
    LET target_serves == IF ~IsNone(servings) THEN servings ELSE serves
    IN Set("serves", ~IsNone(target_serves), Some(_to_int(target_serves, 0)))

ServesSets(serves, servings) ==
    LET target_serves == IF ~IsNone(serves) THEN serves ELSE servings
    IN Set("serves", ~IsNone(target_serves), Some(_to_int(target_serves, 0)))

\* Variant: the keep_existing_image flag read the wrong way round.
ImageSetsInverted(image_bytes, image_mime, image_filename, keep_existing_image) ==
    IF ~keep_existing_image
    THEN Set("image_bytes", ~IsNone(image_bytes), image_bytes)
         \o Set("image_mime", ~IsNone(image_mime), image_mime)
         \o Set("image_filename", ~IsNone(image_filename), image_filename)
    ELSE << <<"image_bytes", image_bytes>>,
            <<"image_mime", image_mime>>,
            <<"image_filename", image_filename>> >>

\* Variant: without keep_existing_image the three columns are nulled, new
\* values or not.
ImageSetsAlwaysClear(image_bytes, image_mime, image_filename, keep_existing_image) ==
    IF keep_existing_image
    THEN Set("image_bytes", ~IsNone(image_bytes), image_bytes)
         \o Set("image_mime", ~IsNone(image_mime), image_mime)
         \o Set("image_filename", ~IsNone(image_filename), image_filename)
    ELSE << <<"image_bytes", None>>, <<"image_mime", None>>, <<"image_filename", None>> >>

ImageSets(image_bytes, image_mime, image_filename, keep_existing_image) ==
    IF keep_existing_image
    THEN Set("image_bytes", ~IsNone(image_bytes), image_bytes)
         \o Set("image_mime", ~IsNone(image_mime), image_mime)
         \o Set("image_filename", ~IsNone(image_filename), image_filename)
    ELSE << <<"image_bytes", image_bytes>>,
            <<"image_mime", image_mime>>,
            <<"image_filename", image_filename>> >>

\* Variant: created_at stamped along with updated_at.
UpdateSetsStampBoth(title, ingredients, instructions, image_bytes, image_mime, image_filename, keep_existing_image, serves, servings) ==
    TextSets(title, ingredients, instructions)
    \o ServesSets(serves, servings)
    \o ImageSets(image_bytes, image_mime, image_filename, keep_existing_image)
    \o << <<"created_at", sqlite3_datetime_now>>, <<"updated_at", sqlite3_datetime_now>> >>

UpdateSets(title, ingredients, instructions, image_bytes, image_mime, image_filename, keep_existing_image, serves, servings) ==
    TextSets(title, ingredients, instructions)
    \o ServesSets(serves, servings)
    \o ImageSets(image_bytes, image_mime, image_filename, keep_existing_image)
    \o << <<"updated_at", sqlite3_datetime_now>> >>

update_recipe(recipe_id, title, ingredients, instructions, image_bytes, image_mime, image_filename, keep_existing_image, serves, servings) ==
    LET sets == UpdateSets(title, ingredients, instructions, image_bytes, image_mime,
                           image_filename, keep_existing_image, serves, servings)
    IN /\ db' = _conn(db)
       /\ schema' = (schema \/ IsNone(db.conn))
       /\ UNCHANGED elsewhere
       /\ recipes' = SqlUpdate(recipes, sets, recipe_id)
       /\ last' = Call("update_recipe",
                       [recipe_id |-> recipe_id, title |-> title,
                        ingredients |-> ingredients, instructions |-> instructions,
                        image_bytes |-> image_bytes, image_mime |-> image_mime,
                        image_filename |-> image_filename,
                        keep_existing_image |-> keep_existing_image,
                        serves |-> serves, servings |-> servings],
                       None)
       /\ before' = recipes
       /\ UNCHANGED <<seq, now, issued>>

delete_recipe(recipe_id) ==
    /\ db' = _conn(db)
    /\ schema' = (schema \/ IsNone(db.conn))
    /\ UNCHANGED elsewhere
    /\ recipes' = SqlDelete(recipes, recipe_id)
    /\ last' = Call("delete_recipe", [recipe_id |-> recipe_id], None)
    /\ before' = recipes
    /\ UNCHANGED <<seq, now, issued>>

count_recipes ==
    /\ db' = _conn(db)
    /\ schema' = (schema \/ IsNone(db.conn))
    /\ UNCHANGED elsewhere
    /\ last' = Call("count_recipes", <<>>, SelectCount(recipes))
    /\ before' = recipes
    /\ UNCHANGED <<recipes, seq, now, issued>>

\* ------------------------------------------------------------------- inputs
\* Ids a caller may pass: every id the table can hold, and one it never holds.
RecipeIds == 1..(MaxAdds + 1)

TitleInputs == {<<>>, <<" ">>, <<"a">>, <<" ", "b", " ">>}

TextInputs == {None, Some("flour")}

ServesInputs == {None, Some(PyInt(2)), Some(PyStr(<<"x">>))}
ServingsInputs == {None, Some(PyStr(<<"3">>))}

Image(bytes, mime, filename) ==
    [image_bytes |-> bytes, image_mime |-> mime, image_filename |-> filename]
NoImage == Image(None, None, None)
Image1 == Image(Some("png-1"), Some("image/png"), Some("one.png"))
Image2 == Image(Some("jpg-2"), Some("image/jpeg"), Some("two.jpg"))
BytesOnly == Image(Some("jpg-2"), None, None)
ImageInputs == {NoImage, Image1, Image2, BytesOnly}

\* ----------------------------------------------------- the store, many rows
AddStep ==
    \E title \in TitleInputs, img \in {NoImage, Image1} :
        add_recipe(title, None, None, img.image_bytes, img.image_mime,
                   img.image_filename, None, None)

UpdateStep ==
    \E id \in RecipeIds, title \in {None} \cup {Some(t) : t \in TitleInputs},
       keep \in BOOLEAN :
        update_recipe(id, title, None, None, None, None, None, keep, None, None)

GetStep == \E id \in RecipeIds : get_recipe(id)

DeleteStep == \E id \in RecipeIds : delete_recipe(id)

Next ==
    \/ AddStep
    \/ UpdateStep
    \/ GetStep
    \/ DeleteStep
    \/ list_recipes
    \/ count_recipes

Spec == Init /\ [][Next]_vars

\* ------------------------------------------- one recipe, every field of it
\* The life of one recipe at a time (the next is added once the table is
\* empty again), with every argument of add_recipe and update_recipe in play.
\* The caller passes the id of the stored recipe or an id that was never issued.
TextUpdateInputs == {None, Some(""), Some("flour")}

RowIds == DOMAIN recipes \cup {MaxAdds + 1}

RowAddText ==
    \E title \in TitleInputs, ingredients \in TextInputs, instructions \in TextInputs :
        /\ DOMAIN recipes = {}
        /\ add_recipe(title, ingredients, instructions, None, None, None, None, None)

RowAddServes ==
    \E serves \in ServesInputs, servings \in ServingsInputs :
        /\ DOMAIN recipes = {}
        /\ add_recipe(<<"a">>, None, None, None, None, None, serves, servings)

RowAddImage ==
    \E img \in ImageInputs :
        /\ DOMAIN recipes = {}
        /\ add_recipe(<<"a">>, None, None, img.image_bytes, img.image_mime,
                      img.image_filename, None, None)

RowUpdateText ==
    \E id \in RowIds, title \in {None} \cup {Some(t) : t \in TitleInputs},
       ingredients \in TextUpdateInputs, instructions \in TextUpdateInputs :
        update_recipe(id, title, ingredients, instructions, None, None, None, TRUE,
                      None, None)

RowUpdateServes ==
    \E id \in RowIds, title \in {None, Some(<<"b">>)},
       serves \in ServesInputs, servings \in ServingsInputs :
        update_recipe(id, title, None, None, None, None, None, TRUE, serves, servings)

RowUpdateImage ==
    \E id \in RowIds, title \in {None, Some(<<"b">>)}, img \in ImageInputs,
       keep \in BOOLEAN :
        update_recipe(id, title, None, None, img.image_bytes, img.image_mime,
                      img.image_filename, keep, None, None)

RowGet == \E id \in RowIds : get_recipe(id)

RowDelete == \E id \in RowIds : delete_recipe(id)

NextRow ==
    \/ RowAddText
    \/ RowAddServes
    \/ RowAddImage
    \/ RowUpdateText
    \/ RowUpdateServes
    \/ RowUpdateImage
    \/ RowGet
    \/ RowDelete

SpecRow == Init /\ [][NextRow]_vars

\* ------------------------------------------------- the store and the clock
\* The system clock, read by sqlite3_datetime_now and by CURRENT_TIMESTAMP.
Tick ==
    /\ now < MaxClock
    /\ now' = now + 1
    /\ UNCHANGED <<db, recipes, seq, issued, before, last, schema, elsewhere>>

ClockAdd == add_recipe(<<"a">>, None, None, None, None, None, None, None)

ClockUpdate ==
    \E id \in RecipeIds, title \in {None, Some(<<"b">>)} :
        update_recipe(id, title, None, None, None, None, None, TRUE, None, None)

NextClock ==
    \/ ClockAdd
    \/ ClockUpdate
    \/ Tick

SpecClock == Init /\ [][NextClock]_vars

\* ------------------------------------------------- the store when it fails
\* What the connection holds once a statement or the commit has raised:
\* cur.execute that raises has written nothing; con.commit that raises for a
\* lock (SQLITE_BUSY) leaves the transaction open with the work in it, and
\* one that raises for a full disk or an I/O error has rolled it back.
AfterFault(table, work, at, rolled_back) ==
    IF at = "execute" \/ rolled_back THEN table ELSE work

\* update_recipe when the storage raises at cur.execute or at con.commit:
\* there is no try, no rollback and no close of the connection after either,
\* and the next call gets the same connection from _conn().
update_recipe_raises(recipe_id, title, keep_existing_image, at, rolled_back) ==
    LET sets == UpdateSets(title, None, None, None, None, None, keep_existing_image, None, None)
    IN /\ db' = _conn(db)
       /\ schema' = (schema \/ IsNone(db.conn))
       /\ UNCHANGED elsewhere
       /\ recipes' = AfterFault(recipes, SqlUpdate(recipes, sets, recipe_id), at, rolled_back)
       /\ last' = [Call("update_recipe",
                        [recipe_id |-> recipe_id, title |-> title,
                         keep_existing_image |-> keep_existing_image],
                        None)
                     EXCEPT !.raised = Some("OperationalError")]
       /\ before' = recipes
       /\ UNCHANGED <<seq, now, issued>>

FaultyUpdate ==
    \E id \in RecipeIds, title \in {None, Some(<<"b">>)}, keep \in BOOLEAN,
       at \in {"execute", "commit"}, rolled_back \in BOOLEAN :
        update_recipe_raises(id, title, keep, at, rolled_back)

NextFault ==
    \/ AddStep
    \/ UpdateStep
    \/ FaultyUpdate
    \/ GetStep

SpecFault == Init /\ [][NextFault]_vars

\* ------------------------------------------------------ backend selection
\* Strings are sequences of tokens, "" is <<>>; kwargs is a function from the
\* keys passed to their values.
Get(kwargs, k) == IF k \in DOMAIN kwargs THEN Some(kwargs[k]) ELSE None

GetOr(kwargs, k, default) == IF k \in DOMAIN kwargs THEN kwargs[k] ELSE default

\* Python truthiness of an optional string, and a or b.
Truthy(o) == ~IsNone(o) /\ Val(o) # <<>>

Or(a, b) == IF Truthy(a) THEN a ELSE b

lower(tok) == IF tok = "PostgreSQL://" THEN "postgresql://" ELSE tok

\* "postgres" in url.lower()
_looks_like_pg(url) ==
    /\ Truthy(url)
    /\ \E i \in 1..Len(Val(url)) :
          lower(Val(url)[i]) \in {"postgres://", "postgresql://", "postgresql+psycopg2://"}

_looks_like_pg_parts(parts) ==
    \E k \in {"user", "username", "password", "host", "port", "dbname", "database"} :
        k \in DOMAIN parts

_build_pg_dsn(url, parts) ==
    LET user == Or(Get(parts, "user"), Get(parts, "username"))
        pwd == Get(parts, "password")
        host == GetOr(parts, "host", <<"localhost">>)
        port == GetOr(parts, "port", <<"5432">>)
        dbname == Or(Get(parts, "dbname"), Get(parts, "database"))
    IN IF Truthy(url) THEN url
       ELSE IF ~(Truthy(user) /\ Truthy(pwd) /\ Truthy(dbname)) THEN None
       ELSE Some(<<"postgresql://">> \o Val(user) \o <<":">> \o Val(pwd) \o <<"@">>
                 \o host \o <<":">> \o port \o <<"/">> \o Val(dbname))

Returned(d) == [raised |-> None, db |-> d]

Raised(e, d) == [raised |-> Some(e), db |-> d]

\* Variant: without the driver, the local file is opened instead.
_init_postgres_or_sqlite(d, url, parts, reachable) ==
    LET dsn == _build_pg_dsn(url, parts)
    IN IF ~psycopg2 \/ ~Truthy(dsn)
       THEN Returned(_init_sqlite(Val(Or(Get(parts, "db_path"), Some(DefaultPath)))))
       ELSE IF ~reachable THEN Raised("OperationalError", d)
       ELSE Returned([engine |-> Some("postgres"), conn |-> Some("psycopg2"),
                      dsn |-> dsn, path |-> None])

\* _init_postgres: what it raises and the _DB it leaves; reachable is whether
\* psycopg2.connect(dsn) gets its connection.
_init_postgres(d, url, parts, reachable) ==
    LET dsn == _build_pg_dsn(url, parts)
    IN IF ~psycopg2 THEN Raised("RuntimeError", d)
       ELSE IF ~Truthy(dsn)
       THEN Returned(_init_sqlite(Val(Or(Get(parts, "db_path"), Some(DefaultPath)))))
       ELSE IF ~reachable THEN Raised("OperationalError", d)
       ELSE Returned([engine |-> Some("postgres"), conn |-> Some("psycopg2"),
                      dsn |-> dsn, path |-> None])

\* The database a _DB names: a local file or a database of a Postgres server.
Location(d) == [engine |-> d.engine, dsn |-> d.dsn, path |-> d.path]

\* Variant: DROP TABLE recipes, then CREATE TABLE.
_ensure_schema_afresh(exists, table) == EmptyTable

\* CREATE TABLE IF NOT EXISTS recipes: the table afterwards.
_ensure_schema(exists, table) == IF exists THEN table ELSE EmptyTable

init_db(kwargs, reachable) ==
    LET db_url == Or(Get(kwargs, "db_url"), Get(kwargs, "url"))
        r == IF _looks_like_pg(db_url) \/ _looks_like_pg_parts(kwargs)
             THEN _init_postgres(db, db_url, kwargs, reachable)
             ELSE Returned(_init_sqlite(Val(Or(Get(kwargs, "db_path"), Some(DefaultPath)))))
        old == Location(_conn(db))
        new == Location(r.db)
        exists == IF new = old THEN schema ELSE new \in DOMAIN stores
        closed == [l \in DOMAIN stores \ {new} |-> stores[l]]
    IN /\ db' = r.db
       /\ IF ~IsNone(r.raised)
          THEN UNCHANGED <<recipes, seq, schema, stores, config>>
          ELSE /\ recipes' = _ensure_schema(exists, IF new = old THEN recipes
                                                    ELSE IF exists THEN stores[new].rows
                                                    ELSE EmptyTable)
               /\ seq' = IF new = old THEN seq ELSE IF exists THEN stores[new].seq ELSE 0
               /\ schema' = TRUE
               /\ stores' = IF new = old THEN stores
                            ELSE IF schema THEN (old :> [rows |-> recipes, seq |-> seq]) @@ closed
                            ELSE closed
               /\ config' = Some(kwargs)
       /\ last' = [op |-> "init_db", args |-> kwargs, ret |-> None, raised |-> r.raised]
       /\ before' = recipes
       /\ UNCHANGED <<now, issued, psycopg2, beyond>>

\* The configurations a caller passes.
PgUrl == <<"postgresql://", "u", ":", "p", "@", "h", ":", "5432", "/", "d">>

NoArgs == <<>>
PathArgs == "db_path" :> <<"other.sqlite3">>
UrlArgs == "db_url" :> PgUrl
UpperUrlArgs == "url" :> <<"PostgreSQL://", "h", "/", "d">>
FileUrlArgs == "db_url" :> <<"sqlite://", "/", "x.db">>
PartsArgs ==
    ("user" :> <<"u">>) @@ ("password" :> <<"p">>) @@ ("host" :> <<"h">>)
    @@ ("port" :> <<"5432">>) @@ ("database" :> <<"d">>)
HostArgs == "host" :> <<"h">>
NoPasswordArgs == ("user" :> <<"u">>) @@ ("password" :> <<>>) @@ ("dbname" :> <<"d">>)

InitArgs ==
    {NoArgs, PathArgs, UrlArgs, UpperUrlArgs, FileUrlArgs, PartsArgs, HostArgs, NoPasswordArgs}

InitStep == \E kwargs \in InitArgs, reachable \in BOOLEAN : init_db(kwargs, reachable)

\* Recipes are written through a SQLite connection (or the one _conn() opens).
StoreAdd ==
    /\ db.engine # Some("postgres")
    /\ add_recipe(<<"a">>, None, None, None, None, None, None, None)

StoreDelete ==
    /\ db.engine # Some("postgres")
    /\ \E id \in DOMAIN recipes : delete_recipe(id)

\* The module as loaded, with the Postgres driver or without it.
InitEither ==
    /\ db = NoDB
    /\ recipes = EmptyTable
    /\ seq = 0
    /\ now = 0
    /\ issued = <<>>
    /\ before = EmptyTable
    /\ last = [op |-> "none", args |-> <<>>, ret |-> None, raised |-> None]
    /\ schema = FALSE
    /\ stores = <<>>
    /\ config = None
    /\ planner = NoTables
    /\ mig = Idle
    /\ repo = NoRows
    /\ cache = NoEntries
    /\ session_state = init_state
    /\ uuids = 0
    /\ psycopg2 \in BOOLEAN

NextInit ==
    \/ InitStep
    \/ StoreAdd
    \/ StoreDelete

SpecInit == InitEither /\ [][NextInit]_vars

\* ------------------------------------------- data/food_planner.db: services
\* A table of the file: whether ingredients and steps are NOT NULL, its rows
\* by rowid, its sqlite_sequence entry.
Table(notnull, rows, sequence) == [notnull |-> notnull, rows |-> rows, seq |-> sequence]

\* services/db.py init_db: CREATE TABLE IF NOT EXISTS with the NOT NULL columns.
services_init_db ==
    /\ mig.pc = "idle"
    /\ planner' = IF "recipes" \in DOMAIN planner THEN planner
                  ELSE planner @@ ("recipes" :> Table(TRUE, EmptyTable, 0))
    /\ last' = Call("services.init_db", <<>>, None)
    /\ UNCHANGED <<food, now, mig, others>>

services_add_recipe(title, description, ingredients, steps, tags, prep_minutes, cook_minutes, servings) ==
    LET args == [title |-> title, description |-> description, ingredients |-> ingredients,
                 steps |-> steps, tags |-> tags, prep_minutes |-> prep_minutes,
                 cook_minutes |-> cook_minutes, servings |-> servings]
        t == planner["recipes"]
        new_id == NextRowid(t.rows, t.seq)
        row == args @@ [id |-> new_id, created_at |-> Some(now)]
    IN /\ mig.pc = "idle"
       /\ IF "recipes" \notin DOMAIN planner
          THEN /\ last' = [Call("services.add_recipe", args, None)
                             EXCEPT !.raised = Some("OperationalError")]
               /\ UNCHANGED planner
          ELSE IF t.notnull /\ (IsNone(ingredients) \/ IsNone(steps))
          THEN /\ last' = [Call("services.add_recipe", args, None)
                             EXCEPT !.raised = Some("IntegrityError")]
               /\ UNCHANGED planner
          ELSE /\ t.seq < MaxAdds
               /\ planner' = [planner EXCEPT !["recipes"] =
                                 Table(t.notnull, t.rows @@ (new_id :> row), new_id)]
               /\ last' = Call("services.add_recipe", args, new_id)
       /\ UNCHANGED <<food, now, mig, others>>

\* LIKE of SQLite: % is any run of characters, _ any one character, letters of
\* ASCII match in either case.
sqlite_lower(c) == IF c = "C" THEN "c" ELSE IF c = "H" THEN "h" ELSE c

RECURSIVE Like(_, _)
Like(text, pattern) ==
    IF pattern = <<>> THEN text = <<>>
    ELSE IF Head(pattern) = "%"
    THEN \E k \in 0..Len(text) : Like(SubSeq(text, k + 1, Len(text)), Tail(pattern))
    ELSE /\ text # <<>>
         /\ Head(pattern) = "_" \/ sqlite_lower(Head(pattern)) = sqlite_lower(Head(text))
         /\ Like(Tail(text), Tail(pattern))

\* WHERE title LIKE ? OR tags LIKE ?  (a NULL tags matches nothing)
WhereLike(row, like) ==
    Like(row.title, like) \/ (~IsNone(row.tags) /\ Like(Val(row.tags), like))

\* ORDER BY created_at DESC of the rows ids: every row once, newest first, rows
\* of the same second in any order.
SelectOrderByCreatedDesc(rows, ids) ==
    UNION {{f \in [1..n -> ids] :
              /\ \A j \in ids : \E i \in 1..n : f[i] = j
              /\ \A i, j \in 1..n : i # j => f[i] # f[j]
              /\ \A i, j \in 1..n :
                    i < j => Val(rows[f[i]].created_at) >= Val(rows[f[j]].created_at)}
           : n \in 0..MaxAdds}

ListColumns == {"id", "title", "tags", "servings", "prep_minutes", "cook_minutes", "created_at"}

services_list_recipes(limit, search) ==
    LET args == [limit |-> limit, search |-> search]
        rows == planner["recipes"].rows
        like == <<"%">> \o Val(search) \o <<"%">>
        ids == IF Truthy(search) THEN {id \in DOMAIN rows : WhereLike(rows[id], like)}
               ELSE DOMAIN rows
    IN /\ IF "recipes" \notin DOMAIN planner
          THEN last' = [Call("services.list_recipes", args, <<>>)
                          EXCEPT !.raised = Some("OperationalError")]
          ELSE \E f \in SelectOrderByCreatedDesc(rows, ids) :
                  LET first == SubSeq(f, 1, IF limit < Len(f) THEN limit ELSE Len(f))
                  IN last' = Call("services.list_recipes", args,
                                  [i \in DOMAIN first |->
                                      [c \in ListColumns |-> rows[first[i]][c]]])
       /\ UNCHANGED <<food, now, beyond>>

\* What the callers pass: titles "Ch" and "b", tags "" and "c".
ServicesTitles == {<<"C", "h">>, <<"b">>}
ServicesTags == {Some(<<>>), Some(<<"c">>)}
SearchInputs == {None, Some(<<>>), Some(<<"c", "h">>), Some(<<"H">>), Some(<<"x">>), Some(<<"_">>)}
LimitInputs == {1, DefaultLimit}

ServicesAdd ==
    \E title \in ServicesTitles, tags \in ServicesTags, text \in TextInputs :
        services_add_recipe(title, Some(""), text, text, tags, Some(0), Some(0), Some(1))

ServicesList ==
    \E limit \in LimitInputs, search \in SearchInputs : services_list_recipes(limit, search)

NextServices ==
    \/ services_init_db
    \/ ServicesAdd
    \/ ServicesList
    \/ Tick

SpecServices == Init /\ [][NextServices]_vars

\* ------------------------------ data/food_planner.db: the embedded variant
\* init_db of the db.py quoted in src/pages/cookbook.py, statement by
\* statement: mig.work is what its connection sees inside the transaction,
\* planner what is committed; mig.start is the file as the call found it.
Columns ==
    {"id", "title", "description", "ingredients", "steps", "tags",
     "prep_minutes", "cook_minutes", "servings", "created_at"}

\* Variant: created_at left out of the column lists, so the default fills it.
InsertSelectStamped(rows) ==
    [id \in DOMAIN rows |->
        [c \in Columns |-> IF c = "created_at" THEN Some(now) ELSE rows[id][c]]]

\* INSERT INTO recipes_new (...) SELECT ... FROM recipes
InsertSelect(rows) == [id \in DOMAIN rows |-> [c \in Columns |-> rows[id][c]]]

\* Variant: what the statements did so far is committed when one of them fails.
RollbackKeepsWork(committed, work) == work

\* An exception leaves "with _connect() as conn": the transaction is rolled back.
Rollback(committed, work) == committed

Without(tables, name) == [n \in DOMAIN tables \ {name} |-> tables[n]]

\* CREATE TABLE IF NOT EXISTS (nullable), commit, PRAGMA table_info, and BEGIN
\* when ingredients or steps is NOT NULL.
cookbook_init_db ==
    LET tables == IF "recipes" \in DOMAIN planner THEN planner
                  ELSE planner @@ ("recipes" :> Table(FALSE, EmptyTable, 0))
        needs_migration == tables["recipes"].notnull
    IN /\ mig.pc = "idle"
       /\ planner' = tables
       /\ IF needs_migration
          THEN /\ mig' = [pc |-> "create", work |-> tables, start |-> tables, outcome |-> "none"]
               /\ UNCHANGED last
          ELSE /\ mig' = [Idle EXCEPT !.start = tables]
               /\ last' = Call("cookbook.init_db", <<>>, None)
       /\ UNCHANGED <<food, now, others>>

Proceed(pc, work) ==
    /\ mig' = [mig EXCEPT !.pc = pc, !.work = work]
    /\ UNCHANGED <<food, now, last, planner, others>>

CreateRecipesNew ==
    /\ mig.pc = "create"
    /\ "recipes_new" \notin DOMAIN mig.work
    /\ Proceed("copy", mig.work @@ ("recipes_new" :> Table(FALSE, EmptyTable, 0)))

CopyRows ==
    /\ mig.pc = "copy"
    /\ LET rows == InsertSelect(mig.work["recipes"].rows)
       IN Proceed("drop", [mig.work EXCEPT !["recipes_new"] =
                              Table(FALSE, rows, MaxRowid(rows))])

DropRecipes ==
    /\ mig.pc = "drop"
    /\ Proceed("rename", Without(mig.work, "recipes"))

RenameRecipesNew ==
    /\ mig.pc = "rename"
    /\ Proceed("commit", Without(mig.work, "recipes_new")
                         @@ ("recipes" :> mig.work["recipes_new"]))

Commit ==
    /\ mig.pc = "commit"
    /\ planner' = mig.work
    /\ mig' = [Idle EXCEPT !.start = mig.start, !.outcome = "migrated"]
    /\ last' = Call("cookbook.init_db", <<>>, None)
    /\ UNCHANGED <<food, now, others>>

\* The statement at mig.pc raises (the file is locked, the disk is full).
Fail ==
    /\ mig.pc # "idle"
    /\ planner' = Rollback(planner, mig.work)
    /\ mig' = [Idle EXCEPT !.start = mig.start, !.outcome = mig.pc]
    /\ last' = [Call("cookbook.init_db", <<>>, None) EXCEPT !.raised = Some("OperationalError")]
    /\ UNCHANGED <<food, now, others>>

LegacyAdd ==
    \E title \in ServicesTitles, text \in TextInputs :
        services_add_recipe(title, Some(""), text, text, Some(<<>>), Some(0), Some(0), Some(1))

NextMigrate ==
    \/ services_init_db
    \/ LegacyAdd
    \/ cookbook_init_db
    \/ CreateRecipesNew
    \/ CopyRows
    \/ DropRecipes
    \/ RenameRecipesNew
    \/ Commit
    \/ Fail
    \/ Tick

SpecMigrate == Init /\ [][NextMigrate]_vars

\* ------------------------------------- repository/recipes_repo.py: the ORM
\* The value of a dict entry is falsy: absent, 0 or "".
Falsy(o) ==
    \/ IsNone(o)
    \/ Val(o).t = "int" /\ Val(o).v = 0
    \/ Val(o).t = "str" /\ Val(o).s = <<>>

\* ing["name"].strip() and float(ing.get("amount") or 0.0): the exception the
\* dict raises, if any.  The amounts passed are ints, digit strings and words,
\* and float() takes a digit string as int() does.
IngredientRaises(ing) ==
    IF "name" \notin DOMAIN ing THEN Some("KeyError")
    ELSE IF ~Falsy(Get(ing, "amount")) /\ IntRaises(Get(ing, "amount")) THEN Some("ValueError")
    ELSE None

\* Ingredient(recipe_id=..., name=..., amount=..., unit=...)
Ingredient(recipe_id, ing) ==
    [recipe_id |-> recipe_id,
     name      |-> strip(ing["name"]),
     amount    |-> IF Falsy(Get(ing, "amount")) THEN 0 ELSE IntOf(Get(ing, "amount")),
     unit      |-> strip(Val(Or(Get(ing, "unit"), Some(<<"p", "c", "s">>))))]

\* for ing in ingredients: s.add(Ingredient(...)), up to the first dict that
\* raises.  Ingredient.id is an INTEGER PRIMARY KEY: the largest id and one.
RECURSIVE AddIngredients(_, _, _)
AddIngredients(table, recipe_id, ingredients) ==
    IF ingredients = <<>> THEN [table |-> table, raised |-> None]
    ELSE IF ~IsNone(IngredientRaises(Head(ingredients)))
    THEN [table |-> table, raised |-> IngredientRaises(Head(ingredients))]
    ELSE AddIngredients(table @@ (MaxRowid(table) + 1 :> Ingredient(recipe_id, Head(ingredients))),
                        recipe_id, Tail(ingredients))

\* delete(Ingredient).where(Ingredient.recipe_id == recipe_id)
DeleteIngredients(table, recipe_id) ==
    [i \in {j \in DOMAIN table : table[j].recipe_id # recipe_id} |-> table[i]]

\* Variant: a relationship without the cascade, so that the ingredients stay.
cascade_none(table, recipe_id) == table

\* Recipe.ingredients, cascade "all, delete-orphan": s.delete(r) deletes the
\* ingredients of r with it.
cascade_delete_orphan(table, recipe_id) == DeleteIngredients(table, recipe_id)

\* with get_session() as s: the block leaves what it committed; what it did
\* not commit is rolled back when the session closes.
get_session(stored, work, committed) == IF committed THEN work ELSE stored

\* Variant: an invalidation that leaves the entries where they are.
invalidate_nothing(entries) == entries

\* list_recipes_cached.clear(): every entry, of every q, goes.
invalidate_recipe_cache(entries) == NoEntries

\* create_recipe: insert the recipe, flush for its id, add the ingredients,
\* commit, clear the cache.  created_at is dt.datetime.utcnow(), which counts
\* microseconds: the clock has moved on when the next recipe is made.
create_recipe(name, instructions, ingredients, image_b64) ==
    LET args == [name |-> name, instructions |-> instructions,
                 ingredients |-> ingredients, image_b64 |-> image_b64]
        id == MaxRowid(repo.recipe) + 1
        r == [name |-> strip(name), instructions |-> strip(instructions),
              image_b64 |-> image_b64, created_at |-> Some(now)]
        added == AddIngredients(repo.ingredient, id, ingredients)
        work == [recipe |-> repo.recipe @@ (id :> r), ingredient |-> added.table]
        raised == added.raised
    IN /\ Cardinality(DOMAIN repo.recipe) < MaxAdds
       /\ MaxRowid(added.table) <= MaxIngredientId
       /\ now < MaxClock
       /\ now' = now + 1
       /\ repo' = get_session(repo, work, IsNone(raised))
       /\ cache' = IF IsNone(raised) THEN invalidate_recipe_cache(cache) ELSE cache
       /\ last' = [Call("repo.create_recipe", args, IF IsNone(raised) THEN Some(id) ELSE None)
                     EXCEPT !.raised = raised]
       /\ UNCHANGED <<food, planner, mig, inmemory>>

\* update_recipe of the repository: False for a missing id; else name and
\* instructions, the image when one is given, the ingredients replaced,
\* commit, clear the cache.  storage is whether the commit goes through.
repo_update_recipe(recipe_id, name, instructions, ingredients, image_b64, storage) ==
    LET args == [recipe_id |-> recipe_id, name |-> name, instructions |-> instructions,
                 ingredients |-> ingredients, image_b64 |-> image_b64]
        found == recipe_id \in DOMAIN repo.recipe
        r == [repo.recipe[recipe_id] EXCEPT
                 !.name = strip(name),
                 !.instructions = strip(instructions),
                 !.image_b64 = IF ~IsNone(image_b64) THEN image_b64 ELSE @]
        added == AddIngredients(DeleteIngredients(repo.ingredient, recipe_id), recipe_id, ingredients)
        work == [recipe |-> [repo.recipe EXCEPT ![recipe_id] = r], ingredient |-> added.table]
        raised == IF ~IsNone(added.raised) THEN added.raised
                  ELSE IF ~storage THEN Some("OperationalError") ELSE None
    IN /\ IF ~found
          THEN /\ UNCHANGED <<repo, cache>>
               /\ last' = Call("repo.update_recipe", args, Some(FALSE))
          ELSE /\ MaxRowid(added.table) <= MaxIngredientId
               /\ repo' = get_session(repo, work, IsNone(raised))
               /\ cache' = IF IsNone(raised) THEN invalidate_recipe_cache(cache) ELSE cache
               /\ last' = [Call("repo.update_recipe", args, IF IsNone(raised) THEN Some(TRUE) ELSE None)
                             EXCEPT !.raised = raised]
       /\ UNCHANGED <<food, now, planner, mig, inmemory>>

\* delete_recipe of the repository: nothing for a missing id; else the recipe
\* and, by the cascade, its ingredients, commit, clear the cache.
repo_delete_recipe(recipe_id) ==
    LET args == [recipe_id |-> recipe_id]
        found == recipe_id \in DOMAIN repo.recipe
        work == [recipe |-> Without(repo.recipe, recipe_id),
                 ingredient |-> cascade_delete_orphan(repo.ingredient, recipe_id)]
    IN /\ IF ~found
          THEN /\ UNCHANGED <<repo, cache>>
               /\ last' = Call("repo.delete_recipe", args, None)
          ELSE /\ repo' = get_session(repo, work, TRUE)
               /\ cache' = invalidate_recipe_cache(cache)
               /\ last' = Call("repo.delete_recipe", args, None)
       /\ UNCHANGED <<food, now, planner, mig, inmemory>>

\* q.lower()
str_lower(s) == [i \in DOMAIN s |-> sqlite_lower(s[i])]

\* A recipe as the list holds it, its ingredients loaded (by id).
Loaded(tables, id) ==
    [id |-> id, recipe |-> tables.recipe[id],
     ingredients |-> {tables.ingredient[i] :
                         i \in {j \in DOMAIN tables.ingredient :
                                   tables.ingredient[j].recipe_id = id}}]

\* The select of list_recipes_cached: the recipes whose name is ILIKE %q%
\* when q is given and not empty, else all of them, newest first; recipes of
\* the same instant in any order.
SelectRecipes(tables, q) ==
    LET ql == <<"%">> \o str_lower(Val(q)) \o <<"%">>
        ids == IF Truthy(q) THEN {id \in DOMAIN tables.recipe : Like(tables.recipe[id].name, ql)}
               ELSE DOMAIN tables.recipe
    IN {[i \in DOMAIN f |-> Loaded(tables, f[i])] : f \in SelectOrderByCreatedDesc(tables.recipe, ids)}

\* list_recipes_cached(q) under st.cache_data: the entry of q when there is
\* one, else the select, whose result becomes the entry of q.
list_recipes_cached(q) ==
    /\ IF q \in DOMAIN cache
       THEN /\ last' = Call("repo.list_recipes_cached", [q |-> q], cache[q])
            /\ UNCHANGED cache
       ELSE \E results \in SelectRecipes(repo, q) :
               /\ cache' = cache @@ (q :> results)
               /\ last' = Call("repo.list_recipes_cached", [q |-> q], results)
    /\ UNCHANGED <<food, now, planner, mig, repo, inmemory>>

\* ttl=30: an entry is dropped when it has been held for thirty seconds.
Expire ==
    /\ \E q \in DOMAIN cache : cache' = Without(cache, q)
    /\ UNCHANGED <<food, now, last, planner, mig, repo, inmemory>>

\* What the pages pass: a name " b" and no image to create, "Ch" and an image
\* to update, a list of no ingredient, of one, of one and one without a name,
\* of one and one whose amount is a word.
Flour == ("name" :> <<"f">>) @@ ("amount" :> PyInt(2))
Nameless == ("amount" :> PyInt(1))
Pinch == ("name" :> <<"s">>) @@ ("amount" :> PyStr(<<"x">>))
CreateIngredients == {<<>>, <<Flour>>, <<Flour, Nameless>>}
UpdateIngredients == {<<>>, <<Flour>>, <<Flour, Pinch>>}
QInputs == {None, Some(<<"c">>)}

RepoCreate ==
    \E ingredients \in CreateIngredients :
        create_recipe(<<" ", "b">>, <<"i">>, ingredients, None)

RepoUpdate ==
    \E id \in RecipeIds, ingredients \in UpdateIngredients, storage \in BOOLEAN :
        repo_update_recipe(id, <<"C", "h">>, <<"j", " ">>, ingredients, Some("b64"), storage)

RepoDelete == \E id \in RecipeIds : repo_delete_recipe(id)

RepoList == \E q \in QInputs : list_recipes_cached(q)

NextRepo ==
    \/ RepoCreate
    \/ RepoUpdate
    \/ RepoDelete
    \/ RepoList
    \/ Expire

SpecRepo == Init /\ [][NextRepo]_vars

\* ----------------------------------- streamlit_app.py: the in-memory pages
\* State no page of streamlit_app.py touches.
outside == <<food, now, planner, mig, repo, cache>>

\* find_recipe(rid): the first recipe of the cookbook with that id, or None.
find_recipe(cookbook, rid) ==
    IF \E i \in DOMAIN cookbook : Some(cookbook[i].id) = rid
    THEN Some(cookbook[CHOOSE i \in DOMAIN cookbook :
                          /\ Some(cookbook[i].id) = rid
                          /\ \A j \in 1..(i - 1) : Some(cookbook[j].id) # rid])
    ELSE None

\* [x for x in st.session_state.cookbook if x["id"] != rid]
RECURSIVE Removed(_, _)
Removed(cookbook, rid) ==
    IF cookbook = <<>> THEN <<>>
    ELSE IF Head(cookbook).id = rid THEN Removed(Tail(cookbook), rid)
    ELSE <<Head(cookbook)>> \o Removed(Tail(cookbook), rid)

\* The rows of the data editor made ingredients: a row without a name is
\* skipped, an amount that is None is 0.0, a unit that is None or blank is pcs.
RECURSIVE EditedIngredients(_)
EditedIngredients(edited) ==
    IF edited = <<>> THEN <<>>
    ELSE LET row == Head(edited)
             ing_name == strip(Val(Or(row.name, Some(<<>>))))
             amt == IF ~IsNone(row.amount) THEN Val(row.amount) ELSE 0
             unit == Val(Or(Some(strip(Val(Or(row.unit, Some(<<>>))))), Some(<<"p", "c", "s">>)))
         IN IF ing_name = <<>> THEN EditedIngredients(Tail(edited))
            ELSE <<[name |-> ing_name, amount |-> amt, unit |-> unit]>>
                 \o EditedIngredients(Tail(edited))

\* str(uuid.uuid4()): an id no recipe has had.
uuid4 == <<"uuid", uuids + 1>>

\* The top of a script run: the page of the Cook Book tab is chosen; a View
\* of a recipe that is not there goes to List, and so does an unknown page.
navigation(s) ==
    IF s.page = "View" /\ IsNone(find_recipe(s.cookbook, s.active_recipe_id))
    THEN [s EXCEPT !.page = "List"]
    ELSE IF s.page \notin {"List", "Add", "View"} THEN [s EXCEPT !.page = "List"]
    ELSE s

\* A script run that has no event to handle, as st.experimental_rerun() and
\* a change of the search box start one.
script_run ==
    /\ session_state' = navigation(session_state)
    /\ last' = Call("script_run", <<>>, Some(navigation(session_state).page))
    /\ UNCHANGED <<outside, uuids>>

\* page_list, "Add new recipe"
list_add ==
    /\ session_state.page = "List"
    /\ session_state' = [session_state EXCEPT !.page = "Add"]
    /\ last' = Call("page_list.add", <<>>, None)
    /\ UNCHANGED <<outside, uuids>>

\* page_list, "View" on the card of the i-th recipe
list_view(i) ==
    /\ session_state.page = "List"
    /\ i \in DOMAIN session_state.cookbook
    /\ session_state' = [session_state EXCEPT
                            !.active_recipe_id = Some(session_state.cookbook[i].id),
                            !.page = "View"]
    /\ last' = Call("page_list.view", [id |-> session_state.cookbook[i].id], None)
    /\ UNCHANGED <<outside, uuids>>

\* page_list, "Confirm delete" on the card of the i-th recipe
list_delete(i) ==
    /\ session_state.page = "List"
    /\ i \in DOMAIN session_state.cookbook
    /\ session_state' = [session_state EXCEPT
                            !.cookbook = Removed(@, session_state.cookbook[i].id)]
    /\ last' = Call("page_list.delete", [id |-> session_state.cookbook[i].id], None)
    /\ UNCHANGED <<outside, uuids>>

\* page_add, "Cancel"
add_cancel ==
    /\ session_state.page = "Add"
    /\ session_state' = [session_state EXCEPT !.page = "List"]
    /\ last' = Call("page_add.cancel", <<>>, None)
    /\ UNCHANGED <<outside, uuids>>

\* page_add, "Save recipe": st.stop() on a blank name or blank instructions;
\* else the recipe is appended under a new id and viewed.
add_save(name, instructions, edited, img_file) ==
    LET args == [name |-> name, instructions |-> instructions]
        recipe == [id |-> uuid4, name |-> strip(name), instructions |-> strip(instructions),
                   ingredients |-> EditedIngredients(edited), image_b64 |-> img_file]
    IN /\ session_state.page = "Add"
       /\ IF strip(name) = <<>> \/ strip(instructions) = <<>>
          THEN /\ last' = Call("page_add.save", args, Some("stopped"))
               /\ UNCHANGED <<session_state, uuids>>
          ELSE /\ uuids < MaxAdds
               /\ session_state' = [session_state EXCEPT
                                       !.cookbook = Append(@, recipe),
                                       !.active_recipe_id = Some(recipe.id),
                                       !.page = "View"]
               /\ uuids' = uuids + 1
               /\ last' = Call("page_add.save", args, Some("added"))
       /\ UNCHANGED outside

\* The recipe page_view shows, when there is one: the page is View and
\* find_recipe has found the active id.
Viewed ==
    IF session_state.page = "View"
    THEN find_recipe(session_state.cookbook, session_state.active_recipe_id)
    ELSE None

\* page_view, "Back to list"
view_back ==
    /\ ~IsNone(Viewed)
    /\ session_state' = [session_state EXCEPT !.page = "List"]
    /\ last' = Call("page_view.back", <<>>, None)
    /\ UNCHANGED <<outside, uuids>>

\* page_view, "Save changes": the name and the instructions stripped, the
\* ingredients replaced, the picture replaced when one was uploaded; the
\* recipe dict is changed in place, in the cookbook.
view_save(name, instructions, edited, img_file) ==
    LET recipe == Val(Viewed)
        saved == [recipe EXCEPT !.name = strip(name),
                                !.instructions = strip(instructions),
                                !.ingredients = EditedIngredients(edited),
                                !.image_b64 = IF ~IsNone(img_file) THEN img_file ELSE @]
    IN /\ ~IsNone(Viewed)
       /\ session_state' = [session_state EXCEPT
                               !.cookbook = [i \in DOMAIN @ |->
                                                IF @[i] = recipe THEN saved ELSE @[i]]]
       /\ last' = Call("page_view.save", [name |-> name, instructions |-> instructions],
                       Some("updated"))
       /\ UNCHANGED <<outside, uuids>>

\* Variant: the recipe removed, the page left on View.
deleted_in_view(s, rid) == [s EXCEPT !.cookbook = Removed(@, rid)]

\* page_view, "Delete recipe": the recipe removed and the page set to List.
deleted_to_list(s, rid) == [s EXCEPT !.cookbook = Removed(@, rid), !.page = "List"]

view_delete ==
    /\ ~IsNone(Viewed)
    /\ session_state' = deleted_to_list(session_state, Val(Viewed).id)
    /\ last' = Call("page_view.delete", [id |-> Val(Viewed).id], None)
    /\ UNCHANGED <<outside, uuids>>

\* A JSON text: one json.loads rejects, or a document; a document is null,
\* a number, a string, an array or an object.
NotJson == [valid |-> FALSE]
Json(doc) == [valid |-> TRUE, doc |-> doc]
JNull == [t |-> "null"]
JNumber(n) == [t |-> "number", number |-> n]
JString(s) == [t |-> "string", string |-> s]
JArray(items) == [t |-> "array", items |-> items]
JObject(members) == [t |-> "object", members |-> members]

\* json.dumps of an ingredient, of a recipe, of the cookbook: None is null,
\* a str a string, a float a number, a list an array, a dict an object.
dumps_ingredient(ing) ==
    JObject([k \in DOMAIN ing |-> IF k = "amount" THEN JNumber(ing[k]) ELSE JString(ing[k])])

dumps_recipe(r) ==
    JObject([k \in DOMAIN r |->
                IF k = "ingredients"
                THEN JArray([i \in DOMAIN r[k] |-> dumps_ingredient(r[k][i])])
                ELSE IF k = "image_b64"
                THEN (IF IsNone(r[k]) THEN JNull ELSE JString(Val(r[k])))
                ELSE JString(r[k])])

\* Variant: an export that leaves the pictures out.
export_json_without_images(cookbook) ==
    Json(JArray([i \in DOMAIN cookbook |->
                    dumps_recipe([cookbook[i] EXCEPT !.image_b64 = None])]))

\* export_json(): json.dumps(st.session_state.cookbook)
export_json(cookbook) == Json(JArray([i \in DOMAIN cookbook |-> dumps_recipe(cookbook[i])]))

\* json.loads of the document of a recipe: the dict of its members.
loads_ingredient(doc) ==
    [k \in DOMAIN doc.members |->
        IF doc.members[k].t = "number" THEN doc.members[k].number ELSE doc.members[k].string]

loads_recipe(doc) ==
    [k \in DOMAIN doc.members |->
        IF doc.members[k].t = "array"
        THEN [i \in DOMAIN doc.members[k].items |-> loads_ingredient(doc.members[k].items[i])]
        ELSE IF k = "image_b64"
        THEN (IF doc.members[k].t = "null" THEN None ELSE Some(doc.members[k].string))
        ELSE doc.members[k].string]

\* What import_json_text raises, if anything: json.loads on a text that is
\* not JSON, the ValueError of a document that is not a list, r.get on an
\* element that is not a dict.
ImportRaises(text) ==
    IF ~text.valid THEN Some("JSONDecodeError")
    ELSE IF text.doc.t # "array" THEN Some("ValueError")
    ELSE IF \E i \in DOMAIN text.doc.items : text.doc.items[i].t # "object"
    THEN Some("AttributeError")
    ELSE None

\* import_json_text(text): the cookbook is assigned last, after every check.
import_json_text(cookbook, text) ==
    IF ~IsNone(ImportRaises(text)) THEN cookbook
    ELSE [i \in DOMAIN text.doc.items |-> loads_recipe(text.doc.items[i])]

\* page_import_export, "Import now": on success the page is List; an
\* exception is shown and nothing else happens.
import_now(text) ==
    /\ session_state' = [session_state EXCEPT
                            !.cookbook = import_json_text(@, text),
                            !.page = IF IsNone(ImportRaises(text)) THEN "List" ELSE @]
    /\ last' = [Call("import_json_text", [text |-> text], None)
                  EXCEPT !.raised = ImportRaises(text)]
    /\ UNCHANGED <<outside, uuids>>

\* What the forms are given: names "a", " b " and blank ones, instructions
\* "i" and none; the editor's rows: none, one filled in, a blank one and one
\* with only a name; a picture or none.
Row(name, amount, unit) == [name |-> name, amount |-> amount, unit |-> unit]
NameInputs == {<<>>, <<" ">>, <<"a">>, <<" ", "b", " ">>}
InstructionInputs == {<<>>, <<"i">>}
EditedInputs ==
    {<<>>, <<Row(Some(<<"f">>), Some(2), Some(<<"g">>))>>,
     <<Row(Some(<<>>), Some(0), Some(<<"g">>)), Row(Some(<<"s">>), None, None)>>}

\* The texts uploaded: one that is not JSON, an object, a list with a number
\* in it, after a recipe and alone, a list of one recipe, and the export of
\* the cookbook as it is.
Imported ==
    [id |-> <<"x", 0>>, name |-> <<"c">>, instructions |-> <<"i">>, ingredients |-> <<>>,
     image_b64 |-> None]

UploadInputs ==
    {NotJson, Json(JObject(<<>>)), Json(JArray(<<JNumber(5)>>)),
     Json(JArray(<<dumps_recipe(Imported), JNumber(5)>>)),
     Json(JArray(<<dumps_recipe(Imported)>>))}

ListView == \E i \in 1..(MaxAdds + 1) : list_view(i)

ListDelete == \E i \in 1..(MaxAdds + 1) : list_delete(i)

AddSave ==
    \E name \in NameInputs, instructions \in InstructionInputs, edited \in EditedInputs :
        add_save(name, instructions, edited, None)

ViewSave ==
    \E name \in {<<>>, <<"a">>}, instructions \in InstructionInputs,
       img_file \in {None, Some(<<"b64">>)} :
        view_save(name, instructions, <<>>, img_file)

ImportNow == \E text \in UploadInputs \cup {export_json(session_state.cookbook)} : import_now(text)

\* The Cook Book tab alone.
NextCookBook ==
    \/ script_run
    \/ list_add
    \/ ListView
    \/ ListDelete
    \/ add_cancel
    \/ AddSave
    \/ view_back
    \/ ViewSave
    \/ view_delete

SpecCookBook == Init /\ [][NextCookBook]_vars

\* Both tabs, with one recipe to add, with an ingredient and a picture, and
\* one change to save.
AppAdd ==
    add_save(<<"a">>, <<"i">>, <<Row(Some(<<"f">>), Some(2), Some(<<"g">>))>>, Some(<<"b64">>))

AppSave == view_save(<<"b">>, <<"i">>, <<>>, None)

NextApp ==
    \/ script_run
    \/ list_add
    \/ ListView
    \/ ListDelete
    \/ add_cancel
    \/ AppAdd
    \/ view_back
    \/ AppSave
    \/ view_delete
    \/ ImportNow

SpecApp == Init /\ [][NextApp]_vars

\* ------------------------------ pages/cookbook.py: the page on the database
\* State render() never touches.
offpage == <<food, now, mig, repo, cache, uuids>>

\* add_recipe of the db.py the page was written for: the row as inserted.
cookbook_add_recipe(t, title) ==
    LET new_id == NextRowid(t.rows, t.seq)
        row == [id |-> new_id, title |-> strip(title), description |-> Some(""),
                ingredients |-> Some(""), steps |-> Some(""), tags |-> Some(<<>>),
                prep_minutes |-> Some(0), cook_minutes |-> Some(0), servings |-> Some(1),
                created_at |-> Some(now)]
    IN Table(t.notnull, t.rows @@ (new_id :> row), new_id)

\* update_recipe of that db.py: the row of the id with its title set, and
\* the number of rows affected.
cookbook_update_recipe(t, recipe_id, title) ==
    IF recipe_id \in DOMAIN t.rows
    THEN [table |-> Table(t.notnull, [t.rows EXCEPT ![recipe_id].title = strip(title)], t.seq),
          changed |-> 1]
    ELSE [table |-> t, changed |-> 0]

\* The top of the edit panel: get_recipe(edit_id) has found no recipe, and
\* edit_id is set to None.
edit_panel(edit_id, rows) ==
    IF ~IsNone(edit_id) /\ Val(edit_id) \notin DOMAIN rows THEN None ELSE edit_id

\* No call of the database module was made.
NoCall == [fn |-> "none", title |-> <<>>]

\* Variant: the edit mode left whenever "Save changes" came back.
after_save_always(edit_id, ok) == None

\* After "Save changes": edit_id is None when update_recipe has returned, and
\* as it was when it was not called or has raised.
after_save(edit_id, ok) == IF ok THEN None ELSE edit_id

\* render() on "Save Recipe" of the create form: an error for a blank title,
\* else add_recipe with the title stripped, whose exception is shown; then
\* the rest of the page, the edit panel included.
render_create(title, storage) ==
    LET t == planner["recipes"]
        calls == strip(title) # <<>>
        added == calls /\ storage
        table == IF added THEN cookbook_add_recipe(t, strip(title)) ELSE t
    IN /\ "recipes" \in DOMAIN planner /\ mig.pc = "idle"
       /\ added => t.seq < MaxAdds
       /\ planner' = [planner EXCEPT !["recipes"] = table]
       /\ session_state' = [session_state EXCEPT !.edit_id = edit_panel(@, table.rows)]
       /\ last' = [Call("render.create", [title |-> title],
                        IF calls THEN [fn |-> "add_recipe", title |-> strip(title)] ELSE NoCall)
                     EXCEPT !.raised = IF calls /\ ~storage THEN Some("OperationalError") ELSE None]
       /\ UNCHANGED offpage

\* render() on "Save changes" of the edit form, which is there when edit_id
\* is set and its recipe found: an error for a blank title, else
\* update_recipe with the title stripped; edit_id is None once it returns.
render_save_edit(etitle, storage) ==
    LET t == planner["recipes"]
        rid == Val(session_state.edit_id)
        calls == strip(etitle) # <<>>
        updated == calls /\ storage
        table == IF updated THEN cookbook_update_recipe(t, rid, strip(etitle)).table ELSE t
    IN /\ "recipes" \in DOMAIN planner /\ mig.pc = "idle"
       /\ ~IsNone(session_state.edit_id) /\ rid \in DOMAIN t.rows
       /\ planner' = [planner EXCEPT !["recipes"] = table]
       /\ session_state' = [session_state EXCEPT
                               !.edit_id = edit_panel(after_save(@, updated), table.rows)]
       /\ last' = [Call("render.save_edit", [title |-> etitle],
                        IF calls THEN [fn |-> "update_recipe", title |-> strip(etitle)] ELSE NoCall)
                     EXCEPT !.raised = IF calls /\ ~storage THEN Some("OperationalError") ELSE None]
       /\ UNCHANGED offpage

\* render() on "Cancel" of the edit form.
render_cancel_edit ==
    /\ "recipes" \in DOMAIN planner /\ mig.pc = "idle"
    /\ ~IsNone(session_state.edit_id)
    /\ Val(session_state.edit_id) \in DOMAIN planner["recipes"].rows
    /\ session_state' = [session_state EXCEPT !.edit_id = None]
    /\ last' = Call("render.cancel_edit", <<>>, NoCall)
    /\ UNCHANGED <<offpage, planner>>

\* render() on "Edit this recipe" of a recipe of the list.
render_edit_button(rid) ==
    /\ "recipes" \in DOMAIN planner /\ mig.pc = "idle"
    /\ rid \in DOMAIN planner["recipes"].rows
    /\ session_state' = [session_state EXCEPT !.edit_id = Some(rid)]
    /\ last' = Call("render.edit_button", [id |-> rid], NoCall)
    /\ UNCHANGED <<offpage, planner>>

\* render() with no button pressed, as on a change of the search box.
render ==
    /\ "recipes" \in DOMAIN planner /\ mig.pc = "idle"
    /\ session_state' = [session_state EXCEPT
                            !.edit_id = edit_panel(@, planner["recipes"].rows)]
    /\ last' = Call("render", <<>>, NoCall)
    /\ UNCHANGED <<offpage, planner>>

\* The page has no delete: a recipe leaves the file by another hand, which
\* is the case the "Recipe not found." of the edit panel is there for.
row_gone(rid) ==
    LET t == planner["recipes"]
    IN /\ "recipes" \in DOMAIN planner /\ mig.pc = "idle"
       /\ rid \in DOMAIN t.rows
       /\ planner' = [planner EXCEPT !["recipes"] = Table(t.notnull, Without(t.rows, rid), t.seq)]
       /\ last' = Call("row_gone", [id |-> rid], NoCall)
       /\ UNCHANGED <<offpage, session_state>>

RenderCreate == \E title \in TitleInputs, storage \in BOOLEAN : render_create(title, storage)

RenderSaveEdit ==
    \E etitle \in {<<>>, <<" ">>, <<"c", " ">>}, storage \in BOOLEAN :
        render_save_edit(etitle, storage)

RenderEditButton == \E rid \in RecipeIds : render_edit_button(rid)

RowGone == \E rid \in RecipeIds : row_gone(rid)

NextPage ==
    \/ cookbook_init_db
    \/ RenderCreate
    \/ RenderSaveEdit
    \/ render_cancel_edit
    \/ RenderEditButton
    \/ render
    \/ RowGone

SpecPage == Init /\ [][NextPage]_vars

\* =================================================================== claims
\* What the specification's words mean, stated apart from the code's own helpers.
Blank(s) == \A i \in 1..Len(s) : s[i] = " "

Spaces(k) == [i \in 1..k |-> " "]

\* t is s with its surrounding whitespace removed.
IsTrimOf(t, s) ==
    /\ t # <<>> => (t[1] # " " /\ t[Len(t)] # " ")
    /\ \E i, j \in 0..Len(s) : s = Spaces(i) \o t \o Spaces(j)

\* The integer a serves/servings pair stands for: serves when given, else
\* servings; an integer as it is, a numeral by its value, anything else the default 0.
ExpectedServes(serves, servings) ==
    LET v == IF ~IsNone(serves) THEN serves ELSE servings
    IN IF IsNone(v) THEN 0
       ELSE IF Val(v).t = "int" THEN Val(v).v
       ELSE IF Val(v).s = <<"3">> THEN 3 ELSE 0

ImageFields == {"image_bytes", "image_mime", "image_filename"}

NoNewImage(a) == \A f \in ImageFields : IsNone(a[f])

Updated(id) == last.op = "update_recipe" /\ last.args.recipe_id = id /\ id \in DOMAIN before

C2_BlankTitleRejected ==
    (last.op = "add_recipe" /\ Blank(last.args.title))
    => /\ last.raised = Some("ValidationError")
       /\ recipes = before
       /\ SelectCount(recipes) = SelectCount(before)

\* C3: update_recipe on an existing id overwrites the fields whose argument
\* was given and leaves every omitted field as it was; with nothing given
\* the record get_recipe returns differs at most in updated_at.
C3_PartialUpdate ==
    \A id \in DOMAIN before : Updated(id) =>
        LET a == last.args
            old == before[id]
        IN /\ id \in DOMAIN recipes
           /\ LET new == recipes[id]
              IN /\ IF IsNone(a.title) THEN new.title = old.title
                    ELSE IsTrimOf(new.title, Val(a.title))
                 /\ new.ingredients = IF IsNone(a.ingredients) THEN old.ingredients
                                      ELSE a.ingredients
                 /\ new.instructions = IF IsNone(a.instructions) THEN old.instructions
                                       ELSE a.instructions
                 /\ new.serves = IF IsNone(a.serves) /\ IsNone(a.servings) THEN old.serves
                                 ELSE Some(ExpectedServes(a.serves, a.servings))
                 /\ (a.keep_existing_image /\ NoNewImage(a))
                    => \A f \in ImageFields : new[f] = old[f]
                 /\ new.id = old.id
                 /\ new.created_at = old.created_at
                 /\ (/\ IsNone(a.title) /\ IsNone(a.ingredients) /\ IsNone(a.instructions)
                     /\ IsNone(a.serves) /\ IsNone(a.servings)
                     /\ a.keep_existing_image /\ NoNewImage(a))
                    => [RowDict(new) EXCEPT !.updated_at = 0]
                       = [RowDict(old) EXCEPT !.updated_at = 0]

\* An update that gave only ingredients, on a recipe titled "b".
C3_Witness ==
    \E id \in DOMAIN before :
        /\ Updated(id)
        /\ IsNone(last.args.title)
        /\ last.args.ingredients = Some("flour")
        /\ IsNone(last.args.instructions)
        /\ before[id].title = <<"b">>
        /\ before[id].ingredients = Some("")
        /\ before[id].instructions = Some("flour")
        /\ recipes[id].title = <<"b">>
        /\ recipes[id].ingredients = Some("flour")
        /\ recipes[id].instructions = Some("flour")

\* C4: for every prior image state, update_recipe with no new image clears
\* the three image fields when keep_existing_image is False and leaves them
\* when it is True; with it True, each image field given replaces the old one
\* (a whole new image replaces the whole old one).
C4_KeepExistingImage ==
    \A id \in DOMAIN before : Updated(id) =>
        LET a == last.args
            old == before[id]
        IN /\ id \in DOMAIN recipes
           /\ LET new == recipes[id]
              IN /\ (~a.keep_existing_image /\ NoNewImage(a))
                    => \A f \in ImageFields : IsNone(new[f])
                 /\ (a.keep_existing_image /\ NoNewImage(a))
                    => \A f \in ImageFields : new[f] = old[f]
                 /\ (a.keep_existing_image /\ ~IsNone(a.image_bytes))
                    => \A f \in ImageFields :
                          new[f] = IF IsNone(a[f]) THEN old[f] ELSE a[f]

\* An update with keep_existing_image False and no new image, on a recipe that
\* had an image: the three fields are now null.
C4_Witness ==
    \E id \in DOMAIN before :
        /\ Updated(id)
        /\ ~last.args.keep_existing_image
        /\ NoNewImage(last.args)
        /\ \A f \in ImageFields : ~IsNone(before[id][f])
        /\ \A f \in ImageFields : IsNone(recipes[id][f])

\* C5: delete_recipe of an existing id removes that row, image fields and all,
\* in its one step, leaves every other row as it was, and a get_recipe of the
\* id that follows returns None.
C5_DeleteThenNotFound ==
    [][/\ (last'.op = "delete_recipe" /\ last'.args.recipe_id \in DOMAIN recipes)
          => /\ last'.args.recipe_id \notin DOMAIN recipes'
             /\ DOMAIN recipes' = DOMAIN recipes \ {last'.args.recipe_id}
             /\ \A j \in DOMAIN recipes' : recipes'[j] = recipes[j]
       /\ (/\ last.op = "delete_recipe"
           /\ last.args.recipe_id \in DOMAIN before
           /\ last'.op = "get_recipe"
           /\ last'.args.recipe_id = last.args.recipe_id)
          => IsNone(last'.ret)]_vars

\* A delete of a recipe with an image that left another recipe in the table.
C5_Witness ==
    /\ last.op = "delete_recipe"
    /\ last.args.recipe_id \in DOMAIN before
    /\ ~IsNone(before[last.args.recipe_id].image_bytes)
    /\ DOMAIN recipes # {}

\* C6: an id that does not exist is no error: get_recipe returns None,
\* delete_recipe does nothing, neither raises, and the table is unchanged.
C6_MissingIdIsNoError ==
    (last.op \in {"get_recipe", "delete_recipe"} /\ last.args.recipe_id \notin DOMAIN before)
    => /\ IsNone(last.raised)
       /\ IsNone(last.ret)
       /\ recipes = before

\* A delete of an id the table does not hold, with a recipe stored.
C6_Witness ==
    /\ last.op = "delete_recipe"
    /\ last.args.recipe_id \notin DOMAIN before
    /\ DOMAIN before # {}

\* C7: update_recipe returns the number of rows affected, 1 for an id that
\* exists and 0 for one that does not, and an update of a missing id neither
\* raises nor changes a row.
C7_UpdateReturnsRowsAffected ==
    last.op = "update_recipe"
    => /\ last.ret = Some(IF last.args.recipe_id \in DOMAIN before THEN 1 ELSE 0)
       /\ IsNone(last.raised)
       /\ last.args.recipe_id \notin DOMAIN before => recipes = before

\* C8: count_recipes() is the number of ids an unfiltered list_recipes() returns.
C8_CountEqualsListLength ==
    /\ SelectOrderByTitle(recipes) # {}
    /\ \A out \in SelectOrderByTitle(recipes) :
          /\ Len(out) = SelectCount(recipes)
          /\ last.op = "count_recipes" => last.ret = Len(out)
    /\ last.op = "list_recipes" => Len(last.ret) = SelectCount(recipes)

\* A list_recipes that returned two recipes with the same title.
C8_Witness ==
    /\ last.op = "list_recipes"
    /\ Len(last.ret) = 2
    /\ last.ret[1].title = last.ret[2].title

\* C9: every id add_recipe returns differs from every id an earlier
\* add_recipe returned, deleted since or not.
C9_IdsNeverReused ==
    /\ \A i, j \in 1..Len(issued) : i # j => issued[i] # issued[j]
    /\ last.op = "add_recipe" => (Len(issued) > 0 /\ last.ret = issued[Len(issued)])

\* An add_recipe made after the recipe of an earlier add_recipe was deleted.
C9_Witness ==
    /\ last.op = "add_recipe"
    /\ Len(issued) >= 2
    /\ \E i \in 1..(Len(issued) - 1) : issued[i] \notin DOMAIN before

\* C10: every stored recipe has a title that is not blank.
C10_TitleNeverBlank ==
    \A id \in DOMAIN recipes : ~Blank(recipes[id].title)

\* C11: every stored recipe has serves of at least 1, whatever add_recipe and
\* update_recipe calls were made, serves omitted or not a number included.
C11_ServesAtLeastOne ==
    \A id \in DOMAIN recipes : Val(recipes[id].serves) >= 1

\* The integer one serves or servings argument stands for by itself.
ExpectedInt(v) ==
    IF Val(v).t = "int" THEN Val(v).v
    ELSE IF Val(v).s = <<"3">> THEN 3 ELSE 0

Wrote(id) ==
    \/ last.op = "add_recipe" /\ last.ret = id /\ id \in DOMAIN recipes
    \/ Updated(id) /\ id \in DOMAIN recipes

\* C12: serves and servings name one value: add_recipe and update_recipe given
\* both store the one given as serves, given servings alone store servings,
\* and get_recipe reports the stored value under both keys.
C12_ServesServingsSynonyms ==
    /\ \A id \in DOMAIN recipes : Wrote(id) =>
          LET a == last.args
          IN /\ (~IsNone(a.serves) /\ ~IsNone(a.servings))
                => recipes[id].serves = Some(ExpectedInt(a.serves))
             /\ (IsNone(a.serves) /\ ~IsNone(a.servings))
                => recipes[id].serves = Some(ExpectedInt(a.servings))
    /\ (last.op = "get_recipe" /\ ~IsNone(last.ret))
       => /\ Val(last.ret).servings = Val(last.ret).serves
          /\ Val(last.ret).serves = before[last.args.recipe_id].serves

\* An update given serves 2 and servings "3", on a recipe that stored 3.
C12_Witness ==
    \E id \in DOMAIN before :
        /\ Updated(id)
        /\ last.args.serves = Some(PyInt(2))
        /\ last.args.servings = Some(PyStr(<<"3">>))
        /\ before[id].serves = Some(3)
        /\ recipes[id].serves = Some(2)

\* C13: update_recipe never changes the created_at or the id of a stored
\* recipe, however often it is called, and each update of an existing recipe
\* writes the time of the call to its updated_at.
C13_CreatedAtImmutable ==
    [][(last'.op = "update_recipe" /\ now' = now)
       => \A id \in DOMAIN recipes :
             /\ id \in DOMAIN recipes'
             /\ recipes'[id].created_at = recipes[id].created_at
             /\ recipes'[id].id = recipes[id].id
             /\ id = last'.args.recipe_id
                => /\ recipes'[id].updated_at = now
                   /\ recipes'[id].updated_at >= recipes[id].updated_at]_vars

\* A second update of a recipe, made later than the first, which was made
\* later than the recipe.
C13_Witness ==
    \E id \in DOMAIN before :
        /\ Updated(id)
        /\ before[id].created_at < before[id].updated_at
        /\ before[id].updated_at < recipes[id].updated_at
        /\ recipes[id].created_at = before[id].created_at
        /\ recipes[id].id = id

\* A step that is a call of init_db.
InitCall == last'.op = "init_db" /\ now' = now

\* C14: init_db called again with the configuration that selected the
\* backend selects the same backend, leaves the recipes table in existence and
\* every stored recipe, here and in the other databases, as it was.
C14_InitIdempotent ==
    [][(InitCall /\ config = Some(last'.args))
       => /\ db' = db
          /\ schema /\ schema'
          /\ recipes' = recipes
          /\ seq' = seq
          /\ stores' = stores]_vars

\* A repeated init_db of the same file, returned, with a recipe stored in it
\* and another database holding recipes of its own.
C14_Witness ==
    /\ last.op = "init_db"
    /\ IsNone(last.raised)
    /\ config = Some(last.args)
    /\ before = recipes
    /\ DOMAIN recipes # {}
    /\ \E l \in DOMAIN stores : DOMAIN stores[l].rows # {}
    /\ Len(issued) = MaxAdds

\* The caller passed a Postgres URL or one of the discrete Postgres parts.
PostgresSchemes == {"postgres://", "postgresql://", "PostgreSQL://"}

PostgresParts == {"user", "password", "host", "port", "dbname", "database"}

IsPostgresUrl(kwargs, k) ==
    k \in DOMAIN kwargs /\ kwargs[k] # <<>> /\ kwargs[k][1] \in PostgresSchemes

Networked(kwargs) ==
    \/ IsPostgresUrl(kwargs, "db_url")
    \/ IsPostgresUrl(kwargs, "url")
    \/ DOMAIN kwargs \cap PostgresParts # {}

\* C15: without the Postgres driver, init_db given a Postgres configuration
\* raises, selects no backend and leaves _DB and the databases as they were.
C15_MissingDriverFailsFast ==
    [][(InitCall /\ ~psycopg2 /\ Networked(last'.args))
       => /\ ~IsNone(last'.raised)
          /\ db' = db
          /\ recipes' = recipes
          /\ seq' = seq
          /\ schema' = schema
          /\ stores' = stores]_vars

\* Without the driver: init_db of a Postgres URL raised, the file selected
\* before is still selected and its recipe is still there.
C15_Witness ==
    /\ ~psycopg2
    /\ last.op = "init_db"
    /\ last.args = UrlArgs
    /\ last.raised = Some("RuntimeError")
    /\ db.engine = Some("sqlite")
    /\ DOMAIN recipes # {}

\* C16: init_db given a Postgres URL or any discrete Postgres part ends with
\* the Postgres backend selected or raises; the local file is selected only
\* when neither was given.
C16_PostgresWhenConfigured ==
    last.op = "init_db"
    => /\ Networked(last.args)
          => (~IsNone(last.raised) \/ db.engine = Some("postgres"))
       /\ (IsNone(last.raised) /\ db.engine = Some("sqlite"))
          => ~Networked(last.args)

\* C19: list_recipes returns the recipes in one order fixed by the stored
\* data: by title, and by id where titles are equal.
C19_ListOrderedByTitleThenId ==
    last.op = "list_recipes"
    => \A i, j \in 1..Len(last.ret) :
          i < j => \/ /\ last.ret[i].title = last.ret[j].title
                      /\ last.ret[i].id < last.ret[j].id
                   \/ /\ last.ret[i].title # last.ret[j].title
                      /\ TextLeq(last.ret[i].title, last.ret[j].title)

\* Letters compared without regard to case.
Fold(c) == CASE c = "C" -> "c" [] c = "H" -> "h" [] OTHER -> c

\* s occurs in text, case apart.
ContainsFolded(text, s) ==
    \E i \in 1..(Len(text) + 1) :
        /\ i + Len(s) - 1 <= Len(text)
        /\ \A k \in 1..Len(s) : Fold(text[i + k - 1]) = Fold(s[k])

Searched(row, s) ==
    ContainsFolded(row.title, s) \/ (~IsNone(row.tags) /\ ContainsFolded(Val(row.tags), s))

\* C20: list_recipes with a search string returns the recipes whose title or
\* tags contain the string, case apart, and no others: each of them once, all
\* of them when they are no more than the limit, and limit of them otherwise.
C20_SearchIsSubstringMatch ==
    (last.op = "services.list_recipes" /\ IsNone(last.raised) /\ ~IsNone(last.args.search))
    => LET rows == planner["recipes"].rows
           want == {id \in DOMAIN rows : Searched(rows[id], Val(last.args.search))}
           got == {last.ret[i].id : i \in 1..Len(last.ret)}
       IN /\ got \subseteq want
          /\ Cardinality(got) = Len(last.ret)
          /\ Len(last.ret) = IF Cardinality(want) < last.args.limit THEN Cardinality(want)
                             ELSE last.args.limit

Initialized == last.op = "cookbook.init_db" /\ IsNone(last.raised)

\* C17: schema initialization of a file whose recipes table has ingredients
\* and steps NOT NULL leaves one recipes table with both columns nullable and
\* the rows it found: the same ids, every column value the same.
C17_MigrationPreservesRows ==
    Initialized
    => /\ DOMAIN planner = {"recipes"}
       /\ ~planner["recipes"].notnull
       /\ DOMAIN planner["recipes"].rows = DOMAIN mig.start["recipes"].rows
       /\ \A id \in DOMAIN planner["recipes"].rows :
             /\ planner["recipes"].rows[id].id = id
             /\ \A c \in Columns :
                   planner["recipes"].rows[id][c] = mig.start["recipes"].rows[id][c]

\* A legacy table of two recipes, made at different times and before the
\* migration ran, now migrated.
C17_Witness ==
    /\ Initialized
    /\ mig.outcome = "migrated"
    /\ mig.start["recipes"].notnull
    /\ DOMAIN planner["recipes"].rows = {1, 2}
    /\ planner["recipes"].rows[1].created_at # planner["recipes"].rows[2].created_at
    /\ Val(planner["recipes"].rows[2].created_at) < now

\* C18: the rebuild is all or nothing: while it runs and after any of its
\* statements failed, the file holds the table init_db found, with its rows
\* and no recipes_new; after it succeeded the file holds the migrated table
\* alone.
C18_MigrationAtomic ==
    /\ "recipes_new" \notin DOMAIN planner
    /\ mig.pc # "idle" => planner = mig.start
    /\ (last.op = "cookbook.init_db" /\ ~IsNone(last.raised))
       => (planner = mig.start /\ planner["recipes"].notnull)
    /\ (Initialized /\ mig.outcome = "migrated")
       => (DOMAIN planner = {"recipes"} /\ ~planner["recipes"].notnull)

\* The rename failed after the copy and the drop went through, on a table of
\* two recipes.
C18_Witness ==
    /\ last.op = "cookbook.init_db"
    /\ ~IsNone(last.raised)
    /\ mig.outcome = "rename"
    /\ DOMAIN planner["recipes"].rows = {1, 2}

\* The strings that are numerals, and the serves/servings value a call gave.
Numerals == {<<"3">>}

GivenServes(a) == IF ~IsNone(a.serves) THEN a.serves ELSE a.servings

NonNumeric(v) == Val(v).t = "str" /\ Val(v).s \notin Numerals

\* C23: add_recipe and update_recipe given a serves/servings value that is
\* not a number do not raise and store the default 0; given a number they
\* store its integer value.
C23_LenientNumerics ==
    last.op \in {"add_recipe", "update_recipe"}
    => /\ IsNone(last.raised)
       /\ \A id \in DOMAIN recipes :
             (Wrote(id) /\ ~IsNone(GivenServes(last.args)))
             => LET v == GivenServes(last.args)
                IN /\ NonNumeric(v) => recipes[id].serves = Some(0)
                   /\ ~NonNumeric(v)
                      => recipes[id].serves
                         = Some(IF Val(v).t = "int" THEN Val(v).v ELSE 3)

\* An add_recipe given servings "3" that stored 3, and no serves.
C23_Witness ==
    /\ last.op = "add_recipe"
    /\ IsNone(last.args.serves)
    /\ last.args.servings = Some(PyStr(<<"3">>))
    /\ last.ret \in DOMAIN recipes
    /\ recipes[last.ret].serves = Some(3)

\* C25: update_recipe with keep_existing_image False sets the three image
\* columns to the three arguments as passed, None included: a new image is
\* stored, and a column whose argument is omitted becomes null.
C25_ReplaceImageExactly ==
    \A id \in DOMAIN before :
        (Updated(id) /\ ~last.args.keep_existing_image)
        => /\ id \in DOMAIN recipes
           /\ \A f \in ImageFields : recipes[id][f] = last.args[f]

\* An update with keep_existing_image False and new bytes alone, on a recipe
\* with a whole image: the bytes are the new ones, mime and filename null.
C25_Witness ==
    \E id \in DOMAIN before :
        /\ Updated(id)
        /\ ~last.args.keep_existing_image
        /\ ~IsNone(last.args.image_bytes)
        /\ IsNone(last.args.image_mime)
        /\ \A f \in ImageFields : ~IsNone(before[id][f])
        /\ recipes[id].image_bytes = last.args.image_bytes
        /\ recipes[id].image_bytes # before[id].image_bytes
        /\ IsNone(recipes[id].image_mime)
        /\ IsNone(recipes[id].image_filename)

\* C30: _DB is consistent after any init_db calls and operations: all four
\* entries unset, or engine sqlite with a connection, a path and no dsn, or
\* engine postgres with a connection, a dsn and no path; and an operation made
\* before any init_db returned runs on the default SQLite file with the
\* recipes table created.
C30_BackendStateConsistent ==
    /\ \/ db = NoDB
       \/ /\ db.engine = Some("sqlite")
          /\ ~IsNone(db.conn) /\ ~IsNone(db.path) /\ IsNone(db.dsn)
       \/ /\ db.engine = Some("postgres")
          /\ ~IsNone(db.conn) /\ ~IsNone(db.dsn) /\ IsNone(db.path)
    /\ ~IsNone(db.conn) => schema
    /\ (IsNone(config) /\ last.op \in {"add_recipe", "delete_recipe"})
       => /\ db.engine = Some("sqlite")
          /\ db.path = Some(<<"food.sqlite3">>)
          /\ schema

\* Another SQLite file selected by an init_db, after Postgres had been
\* selected and with a recipe stored in the default file.
C30_Witness ==
    /\ last.op = "init_db"
    /\ IsNone(last.raised)
    /\ db.engine = Some("sqlite")
    /\ db.path = Some(<<"other.sqlite3">>)
    /\ \E l \in DOMAIN stores : l.engine = Some("postgres")
    /\ \E l \in DOMAIN stores :
          l.path = Some(<<"food.sqlite3">>) /\ DOMAIN stores[l].rows # {}

\* C21: in the repository, whatever create_recipe, update_recipe and
\* delete_recipe have done, every Ingredient row's recipe_id is the id of
\* a Recipe that exists: a delete leaves no orphan.
C21_NoOrphanIngredients ==
    \A i \in DOMAIN repo.ingredient : repo.ingredient[i].recipe_id \in DOMAIN repo.recipe

\* A delete of recipe 1 has come back, its ingredient (the first ever added)
\* is gone, and a later ingredient of another recipe is still there.
C21_Witness ==
    /\ last.op = "repo.delete_recipe" /\ IsNone(last.raised)
    /\ last.args.recipe_id = 1 /\ 1 \notin DOMAIN repo.recipe
    /\ 1 \notin DOMAIN repo.ingredient
    /\ \E i \in DOMAIN repo.ingredient : i > 1 /\ repo.ingredient[i].recipe_id = 2

\* C24: the list cache is never stale with respect to the writes of the
\* repository: every entry it holds for a q is a result of the select of q
\* on the data as it is now, and a step that changes the data leaves the
\* cache empty, so the steps that do not clear it change no data.
C24_CacheNeverStale ==
    /\ [](\A q \in DOMAIN cache : cache[q] \in SelectRecipes(repo, q))
    /\ [][repo' # repo => cache' = NoEntries]_vars

\* An update has come back True on a recipe that has an ingredient, and the
\* cache holds no entry.
C24_Witness ==
    /\ last.op = "repo.update_recipe" /\ last.ret = Some(TRUE)
    /\ \E i \in DOMAIN repo.ingredient : repo.ingredient[i].recipe_id = last.args.recipe_id
    /\ cache = NoEntries

\* A step is an update_recipe, of food/db.py or of the repository, that raised.
UpdateRaised ==
    /\ last'.op \in {"update_recipe", "repo.update_recipe"}
    /\ ~IsNone(last'.raised)

\* C22: an update applies all the fields it was given or none: when
\* update_recipe raises, for the storage or for an ingredient that is bad
\* part-way, the stored recipes and their ingredients are as they were before
\* the call, and that is what the operations after it find.
C22_UpdateAllOrNothing ==
    [][UpdateRaised => (recipes' = recipes /\ repo' = repo)]_vars

\* The active id is the id of a recipe of the cookbook.
ActivePresent ==
    \E i \in DOMAIN session_state.cookbook :
        Some(session_state.cookbook[i].id) = session_state.active_recipe_id

\* C26: in the in-memory Cook Book, whatever has been added, viewed, deleted
\* from the list or from the view, or imported, the page is List, Add or View
\* after every script run, and when it is View the active recipe id is the id
\* of a recipe that is in the cookbook.
C26_NavigationConsistent ==
    /\ session_state.page \in {"List", "Add", "View"}
    /\ session_state.page = "View" => ActivePresent

\* A recipe was deleted from its view: the active id is still its id, no
\* recipe has it, and the page is List.
C26_Witness ==
    /\ last.op = "page_view.delete"
    /\ session_state.active_recipe_id = Some(last.args.id)
    /\ ~ActivePresent
    /\ session_state.page = "List"

\* A step is a save of the add form or of the edit form with a name or with
\* instructions that are blank.
SavedBlank ==
    /\ last'.op \in {"page_add.save", "page_view.save"}
    /\ Blank(last'.args.name) \/ Blank(last'.args.instructions)

\* C27: in the in-memory Cook Book, after any adds, edits and deletes, every
\* recipe has a name and instructions that are not blank, and a save of
\* the add form or of the edit form with a blank name or blank instructions
\* leaves the cookbook as it was.
C27_NameAndInstructionsRequired ==
    /\ [](\A i \in DOMAIN session_state.cookbook :
             /\ ~Blank(session_state.cookbook[i].name)
             /\ ~Blank(session_state.cookbook[i].instructions))
    /\ [][SavedBlank => session_state'.cookbook = session_state.cookbook]_vars

\* The text is one import_json_text is to refuse: not JSON, not a list, or a
\* list with an element that is not an object.
Refused(text) ==
    \/ ~text.valid
    \/ text.doc.t # "array"
    \/ \E i \in DOMAIN text.doc.items : text.doc.items[i].t # "object"

StoredRecipes(tables) == IF "recipes" \in DOMAIN tables THEN tables["recipes"].rows ELSE EmptyTable

\* C28: the Cook Book page on the database never passes an empty title to
\* add_recipe or update_recipe: a create or an edit submitted with a title
\* that is blank makes no call, leaves the stored recipes as they were and,
\* for the edit, leaves edit_id set; and edit_id goes from set to None only
\* when update_recipe has returned, on Cancel, or when the recipe it names is
\* no longer stored.
C28_NoEmptyTitleToRepository ==
    [][/\ last'.op \in {"render.create", "render.save_edit"} =>
             /\ last'.ret.fn # "none" => ~Blank(last'.ret.title)
             /\ Blank(last'.args.title) =>
                   /\ last'.ret.fn = "none"
                   /\ StoredRecipes(planner') = StoredRecipes(planner)
                   /\ last'.op = "render.save_edit" =>
                         (session_state'.edit_id = session_state.edit_id
                          /\ ~IsNone(session_state'.edit_id))
       /\ (~IsNone(session_state.edit_id) /\ IsNone(session_state'.edit_id)) =>
             \/ /\ last'.op = "render.save_edit"
                /\ last'.ret.fn = "update_recipe" /\ IsNone(last'.raised)
             \/ last'.op = "render.cancel_edit"
             \/ Val(session_state.edit_id) \notin DOMAIN StoredRecipes(planner')]_vars

\* The edit form was saved with a blank title: no call was made, and edit_id
\* is still the id of the recipe, which is stored with the title it had.
C28_Witness ==
    /\ last.op = "render.save_edit" /\ Blank(last.args.title)
    /\ last.ret.fn = "none"
    /\ ~IsNone(session_state.edit_id)
    /\ Val(session_state.edit_id) \in DOMAIN StoredRecipes(planner)
    /\ StoredRecipes(planner)[Val(session_state.edit_id)].title = <<"a">>

====
